---------------------------- MODULE Spec2Model ----------------------------
(***************************************************************************)
(* Model of the challenge-protected feed routes of lib/routes/ctee and     *)
(* lib/routes/blocktempo: getPageWithRealBrowser (local browser session or *)
(* remote render service) and the route handler (config check, session     *)
(* open with its 120 s expiry timer, listing fetch, listing extraction,    *)
(* cache-coordinated detail fan-out, session release).                     *)
(*                                                                         *)
(* The handler is an async function on a single-threaded event loop: an    *)
(* action is one run-to-completion segment between two awaits.             *)
(***************************************************************************)
EXTENDS Naturals, Sequences, FiniteSets, TLC

VARIABLES
    config,     \* [puppeteerRealBrowserService, chromiumExecutablePath]
    pc,         \* position of route.handler
    err,        \* error the handler rejected with ("" while none)
    conn,       \* handler local `conn`: "null" or "conn"
    browser,    \* conn.browser: "none" | "open" | "closing" | "closed"
    timer,      \* the setTimeout of the handler: "none" | "armed" | "fired"
    closeLog,   \* who invoked conn.browser.close(), in order
    page,       \* url of the document loaded in conn.page ("" = blank)
    web,        \* the markup the site serves at the listing url
    html,       \* handler local `html`
    list,       \* handler local `list`, as extracted from the listing
    items,      \* results of the cache.tryGet promises, <<>> while pending
    task,       \* the getPageWithRealBrowser calls: 0 listing, i detail of list[i]
    cache,      \* cache store: set of <<key, value>>
    inflight,   \* single-flight registry: keys with a computation in flight
    calls       \* counters of outbound activity

vars == <<config, pc, err, conn, browser, timer, closeLog, page, web, html,
          list, items, task, cache, inflight, calls>>

-----------------------------------------------------------------------------
(* Bounds of the model *)

\* candidate nodes of a listing in the pipeline specification
MaxListing == 2

\* candidate nodes of a listing in the extraction specification
MaxNodes == 21

\* challenge polls of one navigation before the 60 s budget is taken as elapsed
MaxPolls == 2

\* granularity (ms) of the durations in the poll-loop specification
EvalStep == 500

\* a page.evaluate call takes 0..MaxEvalSteps steps to settle
MaxEvalSteps == 2

(* Program constants *)

\* articles.slice(0, 20)
ListCap == 20

\* article selector chain: 'article', '.news-item', ..., '[class*="article"]'
ChainLen == 6

\* page.goto(url, { timeout: 60000 })
GotoTimeout == 60000

\* setTimeout(..., 120000)
ExpiryDelay == 120000

\* Date.now() - startDate < 60000
PollBudget == 60000

\* setTimeout(r, 1000)
PollInterval == 1000

baseUrl == "https://ctee.com.tw"

-----------------------------------------------------------------------------
(* JavaScript values *)

\* an optional value: <<>> is undefined, <<v>> is v
Undefined == <<>>

Some(v) == <<v>>

StartsWith(s, p) == Len(s) >= Len(p) /\ SubSeq(s, 1, Len(p)) = p

\* `${x}` of an optional string
Interpolate(o) == IF o = Undefined THEN "undefined" ELSE o[1]

\* the '' sentinel of getPageWithRealBrowser
EmptyMarkup == [kind |-> "empty"]

\* !html
Falsy(m) == m = EmptyMarkup

\* parseDate(text) of @/utils/parse-date
parseDate(text) == "date:" \o text

\* the texts the date normalizer can parse: those that begin yyyy-mm-dd
Parseable(text) ==
    Len(text) >= 10 /\ SubSeq(text, 5, 5) = "-" /\ SubSeq(text, 8, 8) = "-"

\* what a call parseDate(text) can do: return the date, or fail on a text it
\* cannot parse, by throwing or by returning an invalid date
ParseDateOutcomes(text) ==
    IF Parseable(text)
    THEN {[threw |-> FALSE, val |-> parseDate(text)]}
    ELSE {[threw |-> TRUE, val |-> ""], [threw |-> FALSE, val |-> "Invalid Date"]}

-----------------------------------------------------------------------------
(* Listing extraction: route.handler, lines 113-148 *)

\* $item.find('h2, h3, .title, [class*="title"]').first().text().trim() || $link.text().trim()
NodeTitle(node) == IF node.title # "" THEN node.title ELSE node.linkText

\* link?.startsWith('http') ? link : `${baseUrl}${link}`
NodeLink(href) ==
    IF href # Undefined /\ StartsWith(href[1], "http")
    THEN href[1]
    ELSE baseUrl \o Interpolate(href)

\* the object literal returned by the map callback
MakeItem(node) ==
    [title       |-> NodeTitle(node),
     link        |-> NodeLink(node.href),
     description |-> node.desc,
     pubDate     |-> IF node.dateText # "" THEN Some(parseDate(node.dateText)) ELSE Undefined,
     author      |-> Undefined]

\* .filter((item) => item.title && item.link)
KeepItem(item) == item.title # "" /\ item.link # ""

\* for (const selector of articleSelectors) { found = $(selector).toArray(); if (found.length > 0) ... break }
LastMatch(sel, k) ==
    LET ks == {j \in k..Len(sel) : Len(sel[j]) > 0}
    IN  IF ks = {} THEN <<>>
        ELSE sel[CHOOSE j \in ks : \A i \in ks : i <= j]

RECURSIVE FirstMatch(_, _)
FirstMatch(sel, k) ==
    IF k > Len(sel) THEN <<>>
    ELSE IF Len(sel[k]) > 0 THEN sel[k]
    ELSE FirstMatch(sel, k + 1)

Articles(m) == FirstMatch(m.sel, 1)

\* .map((item) => { ... })
MapMakeItem(s) == [i \in 1..Len(s) |-> MakeItem(s[i])]

Min(a, b) == IF a < b THEN a ELSE b

\* articles.slice(0, 20).map(...).filter(...)
ExtractListingFilterFirst(m) ==
    LET kept == SelectSeq(MapMakeItem(Articles(m)), KeepItem)
    IN  SubSeq(kept, 1, Min(ListCap, Len(kept)))

ExtractListing(m) ==
    LET articles == Articles(m)
        sliced   == SubSeq(articles, 1, Min(ListCap, Len(articles)))
    IN  SelectSeq(MapMakeItem(sliced), KeepItem)

-----------------------------------------------------------------------------
(* Listing markups the specifications start from *)

\* a candidate node with a title, a relative href, a summary and a date
WellFormedNode(i) ==
    [title    |-> "t" \o ToString(i),
     linkText |-> "",
     href     |-> Some("/a" \o ToString(i)),
     desc     |-> "d" \o ToString(i),
     dateText |-> "2026-01-0" \o ToString(i % 10)]

NodeKinds == {"notitle", "nohref", "emptyhref", "linktext", "absolute", "duplicate"}

OddNode(kind, i) ==
    LET w == WellFormedNode(i)
    IN  CASE kind = "notitle"   -> [w EXCEPT !.title = ""]
          [] kind = "nohref"    -> [w EXCEPT !.href = Undefined]
          [] kind = "emptyhref" -> [w EXCEPT !.href = Some("")]
          [] kind = "linktext"  -> [w EXCEPT !.title = "", !.linkText = "l" \o ToString(i)]
          [] kind = "absolute"  -> [w EXCEPT !.href = Some("https://x.tw/a" \o ToString(i)), !.dateText = ""]
          [] kind = "duplicate" -> [w EXCEPT !.href = Some("/a1")]

\* n candidate nodes, all well-formed except those at positions p and q
ListingNodes(n, p, kp, q, kq) ==
    [i \in 1..n |-> IF i = p THEN OddNode(kp, i)
                    ELSE IF i = q THEN OddNode(kq, i)
                    ELSE WellFormedNode(i)]

\* a listing document whose candidates are matched by chain entry c only
ListingMarkup(nodes, c) ==
    [kind |-> "listing",
     sel  |-> [k \in 1..ChainLen |-> IF k = c THEN nodes ELSE <<>>]]

ExtractMarkups ==
    { ListingMarkup(ListingNodes(n, p, kp, q, kq), 1) :
        n \in 0..MaxNodes, p \in 0..MaxNodes, kp \in NodeKinds,
        q \in 0..1, kq \in {"notitle", "nohref"} }

PipelineMarkups ==
    { ListingMarkup(ListingNodes(n, p, kp, 0, "notitle"), 1) :
        n \in 0..MaxListing, p \in 0..MaxListing, kp \in {"nohref", "duplicate"} }

-----------------------------------------------------------------------------
(* State *)

\* `${baseUrl}/${category}` with the default category
ListingUrl == baseUrl \o "/finance/fintech"

DetailShapes == {"full", "bare"}

\* the document the site serves at a detail url
DetailDoc(url, shape) ==
    [kind     |-> "detail",
     url      |-> url,
     content  |-> IF shape = "full" THEN Some("<p>body of " \o url \o "</p>") ELSE Undefined,
     datetime |-> IF shape = "full" THEN "2026-02-02T08:00" ELSE "",
     author   |-> IF shape = "full" THEN "reporter" ELSE ""]

Doc(url, shape) == IF url = ListingUrl THEN web ELSE DetailDoc(url, shape)

NoTask == [pc |-> "unused", url |-> "", verify |-> FALSE, polls |-> 0,
           ret |-> EmptyMarkup, closedAtCall |-> FALSE, gotoFailed |-> FALSE,
           resp |-> Undefined, elapsed |-> 0, last |-> "none"]

NoCalls == [connect |-> 0, goto |-> 0, fetch |-> 0, cache |-> 0]

Pending == [st |-> "idle", val |-> Undefined]

Configs == [puppeteerRealBrowserService : {"", "http://svc"},
            chromiumExecutablePath      : {"", "/usr/bin/chromium"}]

Quiet ==
    /\ err = ""
    /\ conn = "null"
    /\ browser = "none"
    /\ timer = "none"
    /\ closeLog = <<>>
    /\ page = ""
    /\ list = <<>>
    /\ items = <<>>
    /\ task = [t \in 0..MaxListing |-> NoTask]
    /\ inflight = {}
    /\ calls = NoCalls

\* what an earlier request left in the cache: the finalized record of list[1]
WarmCache ==
    {<<baseUrl \o "/a1",
       [title       |-> "t1",
        link        |-> baseUrl \o "/a1",
        description |-> "<p>body of " \o baseUrl \o "/a1</p>",
        pubDate     |-> Some(parseDate("2026-02-02T08:00")),
        author      |-> Some("reporter")]>>}

\* a request arrives: nothing has run yet
Init ==
    /\ config \in Configs
    /\ pc = "idle"
    /\ web \in PipelineMarkups
    /\ html = EmptyMarkup
    /\ cache \in {{}, WarmCache}
    /\ Quiet

\* the state after the extraction stage received a listing markup
InitExtract ==
    /\ config = [puppeteerRealBrowserService |-> "http://svc", chromiumExecutablePath |-> ""]
    /\ pc = "extracting"
    /\ html \in ExtractMarkups
    /\ web = html
    /\ cache = {}
    /\ Quiet

-----------------------------------------------------------------------------
(* getPageWithRealBrowser, lines 25-48 *)

\* the call up to its first await: page.goto(url) when conn is set, fetch(...) otherwise
GetPageCall(url) ==
    IF conn # "null"
    THEN [NoTask EXCEPT !.pc = "goto", !.url = url, !.closedAtCall = (browser # "open")]
    ELSE [NoTask EXCEPT !.pc = "fetch", !.url = url]

CallsAfterGetPage ==
    IF conn # "null"
    THEN [calls EXCEPT !.goto = @ + 1]
    ELSE [calls EXCEPT !.fetch = @ + 1]

\* bodies the remote render service may answer with; threw: transport error,
\* timeout or a body that is no JSON object
RemoteResponses(url) ==
    {[threw |-> TRUE,  data |-> Undefined],
     [threw |-> FALSE, data |-> Undefined],
     [threw |-> FALSE, data |-> Some(<<>>)],
     [threw |-> FALSE, data |-> Some(<<EmptyMarkup>>)]}
    \cup {[threw |-> FALSE, data |-> Some(<<Doc(url, shape)>>)] : shape \in DetailShapes}

\* (json.data?.at(0) || '') under the catch of line 45
RemoteResultErrorPage(res) ==
    IF res.threw \/ res.data = Undefined
    THEN [kind |-> "listing", sel |-> [k \in 1..ChainLen |-> <<>>]]
    ELSE IF Len(res.data[1]) = 0 THEN EmptyMarkup
    ELSE res.data[1][1]

RemoteResult(res) ==
    IF res.threw THEN EmptyMarkup
    ELSE IF res.data = Undefined THEN EmptyMarkup
    ELSE IF Len(res.data[1]) = 0 THEN EmptyMarkup
    ELSE IF Falsy(res.data[1][1]) THEN EmptyMarkup
    ELSE res.data[1][1]

-----------------------------------------------------------------------------
(* route.handler: detail merge and cache key, lines 151-180 *)

\* cache.tryGet(item.link, ...)
CacheKeyTitle(item) == item.title

CacheKey(item) == item.link

\* the body of the compute callback once detailHtml is known
MergeDetailUnguarded(item, m) ==
    [item EXCEPT !.description = IF Falsy(m) \/ m.content = Undefined THEN "" ELSE m.content[1]]

\* lines 157-173 with parsed the outcome of parseDate(datetime); a throw is
\* caught at line 174 and skips what follows it
MergeDetailParsedOverwrite(item, m, parsed) ==
    [item EXCEPT
        !.description = IF m.content # Undefined THEN m.content[1] ELSE "",
        !.pubDate     = IF m.datetime # "" /\ ~parsed.threw THEN Some(parsed.val) ELSE Undefined,
        !.author      = IF m.author # "" THEN Some(m.author) ELSE Undefined]

MergeDetailParsed(item, m, parsed) ==
    LET merged == [item EXCEPT
                     !.description = IF m.content # Undefined /\ m.content[1] # ""
                                     THEN m.content[1] ELSE @]
    IN  IF m.datetime # "" /\ parsed.threw THEN merged
        ELSE [merged EXCEPT
                !.pubDate = IF m.datetime # "" THEN Some(parsed.val) ELSE @,
                !.author  = IF m.author # "" THEN Some(m.author) ELSE @]

\* the body of the compute callback on a detail page whose date, if any, parses
MergeDetail(item, m) ==
    IF Falsy(m) \/ m.kind # "detail" THEN item
    ELSE MergeDetailParsed(item, m, [threw |-> FALSE, val |-> parseDate(m.datetime)])

\* the same body in blocktempo/year.ts, lines 144-177: content and categories
MergeDetailYear(item, m) ==
    IF Falsy(m) \/ m.kind # "detail" THEN item
    ELSE [item EXCEPT
            !.description = IF m.content # Undefined /\ m.content[1] # ""
                            THEN m.content[1] ELSE @,
            !.category    = IF Len(m.categories) > 0 THEN Some(m.categories) ELSE @]

-----------------------------------------------------------------------------
(* route.handler, lines 83-196 *)

\* !config.puppeteerRealBrowserService && !config.chromiumExecutablePath
ConfigMissingNegationDropped ==
    config.puppeteerRealBrowserService = "" /\ config.chromiumExecutablePath # ""

ConfigMissing ==
    config.puppeteerRealBrowserService = "" /\ config.chromiumExecutablePath = ""

\* !config.puppeteerRealBrowserService of line 93
UseLocalSessionWhenChrome == config.chromiumExecutablePath # ""

UseLocalSession == config.puppeteerRealBrowserService = ""

\* lines 84-103, up to the first await
Start ==
    /\ pc = "idle"
    /\ IF ConfigMissing
       THEN /\ pc' = "failed"
            /\ err' = "config"
            /\ UNCHANGED <<task, calls>>
       ELSE IF UseLocalSession
       THEN /\ pc' = "connecting"
            /\ calls' = [calls EXCEPT !.connect = @ + 1]
            /\ UNCHANGED <<err, task>>
       ELSE /\ pc' = "listing"
            /\ task' = [task EXCEPT ![0] = GetPageCall(ListingUrl)]
            /\ calls' = CallsAfterGetPage
            /\ UNCHANGED err
    /\ UNCHANGED <<config, conn, browser, timer, closeLog, page, web, html, list,
                   items, cache, inflight>>

\* connect(realBrowserOption) resolves: lines 94-103
ConnectResolve ==
    /\ pc = "connecting"
    /\ conn' = "conn"
    /\ browser' = "open"
    /\ timer' = "armed"
    /\ task' = [task EXCEPT ![0] = [NoTask EXCEPT !.pc = "goto", !.url = ListingUrl]]
    /\ calls' = [calls EXCEPT !.goto = @ + 1]
    /\ pc' = "listing"
    /\ UNCHANGED <<config, err, closeLog, page, web, html, list, items, cache, inflight>>

\* connect(realBrowserOption) rejects: the handler rejects with it
ConnectReject ==
    /\ pc = "connecting"
    /\ pc' = "failed"
    /\ err' = "connect"
    /\ UNCHANGED <<config, conn, browser, timer, closeLog, page, web, html, list,
                   items, task, cache, inflight, calls>>

\* conn.browser.close() is invoked: an open browser starts closing
CloseInvoked == IF browser = "open" THEN "closing" ELSE browser

\* lines 105-111: what the handler does with the listing markup
ListingFailNoClose(m) ==
    /\ html' = m
    /\ IF Falsy(m)
       THEN /\ pc' = "failed"
            /\ err' = "fetch"
       ELSE /\ pc' = "extracting"
            /\ UNCHANGED err
    /\ UNCHANGED <<browser, closeLog>>

ListingFailOnNoArticles(m) ==
    /\ html' = m
    /\ IF Falsy(m) \/ Articles(m) = <<>>
       THEN IF conn # "null"
            THEN /\ pc' = "failclosing"
                 /\ browser' = CloseInvoked
                 /\ closeLog' = Append(closeLog, "fail")
                 /\ UNCHANGED err
            ELSE /\ pc' = "failed"
                 /\ err' = "fetch"
                 /\ UNCHANGED <<browser, closeLog>>
       ELSE /\ pc' = "extracting"
            /\ UNCHANGED <<err, browser, closeLog>>

ListingReturned(m) ==
    /\ html' = m
    /\ IF Falsy(m)
       THEN IF conn # "null"
            THEN /\ pc' = "failclosing"
                 /\ browser' = CloseInvoked
                 /\ closeLog' = Append(closeLog, "fail")
                 /\ UNCHANGED err
            ELSE /\ pc' = "failed"
                 /\ err' = "fetch"
                 /\ UNCHANGED <<browser, closeLog>>
       ELSE /\ pc' = "extracting"
            /\ UNCHANGED <<err, browser, closeLog>>

\* lines 154-177 after the await, and the resolution of the cache.tryGet promises
DetailReturnedNoCacheOnFail(t, m) ==
    LET val == MergeDetail(list[t], m)
        key == CacheKey(list[t])
    IN  /\ cache' = IF Falsy(m) THEN cache ELSE cache \cup {<<key, val>>}
        /\ inflight' = inflight \ {key}
        /\ items' = [i \in 1..Len(items) |->
                        IF i = t \/ (items[i].st = "waiting" /\ CacheKey(list[i]) = key)
                        THEN [st |-> "resolved", val |-> Some(val)]
                        ELSE items[i]]

DetailReturned(t, m) ==
    LET val == MergeDetail(list[t], m)
        key == CacheKey(list[t])
    IN  /\ cache' = cache \cup {<<key, val>>}
        /\ inflight' = inflight \ {key}
        /\ items' = [i \in 1..Len(items) |->
                        IF i = t \/ (items[i].st = "waiting" /\ CacheKey(list[i]) = key)
                        THEN [st |-> "resolved", val |-> Some(val)]
                        ELSE items[i]]

\* getPageWithRealBrowser of task t returns m to its caller
Return(t, m, res) ==
    /\ task' = [task EXCEPT ![t] = [NoTask EXCEPT !.pc = "done", !.url = task[t].url,
                                                   !.closedAtCall = task[t].closedAtCall,
                                                   !.gotoFailed = (task[t].pc = "goto"),
                                                   !.elapsed = task[t].elapsed,
                                                   !.last = task[t].last,
                                                   !.ret = m, !.resp = res]]
    /\ IF t = 0
       THEN /\ ListingReturned(m)
            /\ UNCHANGED <<items, cache, inflight>>
       ELSE /\ DetailReturned(t, m)
            /\ UNCHANGED <<pc, err, browser, closeLog, html>>

Tasks == 0..MaxListing

\* await page.goto(url, { timeout: 60000 }) resolves
GotoResolve(t) ==
    /\ task[t].pc = "goto"
    /\ browser = "open"
    /\ page' = task[t].url
    /\ task' = [task EXCEPT ![t].pc = "poll"]
    /\ UNCHANGED <<config, pc, err, conn, browser, timer, closeLog, web, html, list,
                   items, cache, inflight, calls>>

\* page.goto rejects (timeout, network error, closed browser): catch, return ''
GotoReject(t) ==
    /\ task[t].pc = "goto"
    /\ Return(t, EmptyMarkup, Undefined)
    /\ UNCHANGED <<config, conn, timer, page, web, list, calls>>

\* one turn of the while loop of lines 33-36: evaluate, sleep 1 s, test the loop condition
PollNoBudget(t) ==
    /\ task[t].pc = "poll"
    /\ \E matched \in BOOLEAN :
        /\ matched => browser \in {"open", "closing"}
        /\ task' = [task EXCEPT ![t].verify = matched,
                                ![t].pc = IF matched THEN "content" ELSE "poll"]
    /\ UNCHANGED <<config, pc, err, conn, browser, timer, closeLog, page, web, html,
                   list, items, cache, inflight, calls>>

PollTimeoutThrows(t) ==
    /\ task[t].pc = "poll"
    /\ \E matched \in BOOLEAN, elapsed \in BOOLEAN :
        /\ matched => browser \in {"open", "closing"}
        /\ task[t].polls + 1 >= MaxPolls => elapsed
        /\ IF ~matched /\ elapsed
           THEN /\ Return(t, EmptyMarkup, Undefined)
                /\ UNCHANGED <<config, conn, timer, page, web, list, calls>>
           ELSE /\ task' = [task EXCEPT ![t].verify = matched,
                                        ![t].polls = @ + 1,
                                        ![t].pc = IF matched THEN "content" ELSE "poll"]
                /\ UNCHANGED <<config, pc, err, conn, browser, timer, closeLog, page,
                               web, html, list, items, cache, inflight, calls>>

Poll(t) ==
    /\ task[t].pc = "poll"
    /\ \E matched \in BOOLEAN, elapsed \in BOOLEAN :
        /\ matched => browser \in {"open", "closing"}
        /\ task[t].polls + 1 >= MaxPolls => elapsed
        /\ task' = [task EXCEPT ![t].verify = matched,
                                ![t].polls = @ + 1,
                                ![t].pc = IF matched \/ elapsed THEN "content" ELSE "poll"]
    /\ UNCHANGED <<config, pc, err, conn, browser, timer, closeLog, page, web, html,
                   list, items, cache, inflight, calls>>

\* return await page.content(); a browser that is closing may still answer
ContentResolve(t) ==
    /\ task[t].pc = "content"
    /\ browser \in {"open", "closing"}
    /\ \E shape \in DetailShapes : Return(t, Doc(page, shape), Undefined)
    /\ UNCHANGED <<config, conn, timer, page, web, list, calls>>

\* page.content() rejects (page error, closed browser): catch, return ''
ContentReject(t) ==
    /\ task[t].pc = "content"
    /\ Return(t, EmptyMarkup, Undefined)
    /\ UNCHANGED <<config, conn, timer, page, web, list, calls>>

\* lines 39-43: the remote request settles
FetchSettle(t) ==
    /\ task[t].pc = "fetch"
    /\ \E res \in RemoteResponses(task[t].url) : Return(t, RemoteResult(res), Some(res))
    /\ UNCHANGED <<config, conn, timer, page, web, list, calls>>

\* await conn.browser.close() of line 107 resolves: conn = null; throw
FailClosed ==
    /\ pc = "failclosing"
    /\ browser = "closed"
    /\ conn' = "null"
    /\ pc' = "failed"
    /\ err' = "fetch"
    /\ UNCHANGED <<config, browser, timer, closeLog, page, web, html, list, items,
                   task, cache, inflight, calls>>

\* const $ = load(html); ... const list = articles.slice(0, 20).map(...).filter(...)
Extracting ==
    /\ pc = "extracting"
    /\ list' = ExtractListing(html)
    /\ items' = [i \in 1..Len(list') |-> Pending]
    /\ pc' = "fanout"
    /\ UNCHANGED <<config, err, conn, browser, timer, closeLog, page, web, html,
                   task, cache, inflight, calls>>

CachedValues(key) == {e[2] : e \in {c \in cache : c[1] = key}}

\* cache.tryGet(item.link, compute) of list[i], called in state st of the fan-out:
\* a hit, a computation in flight to join, or compute, which calls
\* getPageWithRealBrowser(item.link, ..., conn)
TryGet(i, st) ==
    LET key == CacheKey(list[i])
    IN  IF CachedValues(key) # {}
        THEN [st EXCEPT !.items[i] = [st |-> "resolved",
                                      val |-> Some(CHOOSE v \in CachedValues(key) : TRUE)],
                        !.calls.cache = @ + 1]
        ELSE IF key \in st.inflight
        THEN [st EXCEPT !.items[i].st = "waiting",
                        !.calls.cache = @ + 1]
        ELSE [st EXCEPT !.items[i].st = "computing",
                        !.inflight = @ \cup {key},
                        !.task[i] = GetPageCall(list[i].link),
                        !.calls.cache = @ + 1,
                        !.calls.goto = IF conn # "null" THEN @ + 1 ELSE @,
                        !.calls.fetch = IF conn # "null" THEN @ ELSE @ + 1]

\* list.map((item) => cache.tryGet(...)): the calls are made in list order
RECURSIVE MapTryGet(_, _)
MapTryGet(i, st) ==
    IF i > Len(list) THEN st ELSE MapTryGet(i + 1, TryGet(i, st))

\* lines 151-153: Promise.all(list.map(...)) up to the await
FanOut ==
    /\ pc = "fanout"
    /\ LET st == MapTryGet(1, [items |-> items, inflight |-> inflight,
                               task |-> task, calls |-> calls])
       IN  /\ items' = st.items
           /\ inflight' = st.inflight
           /\ task' = st.task
           /\ calls' = st.calls
    /\ pc' = "awaiting"
    /\ UNCHANGED <<config, err, conn, browser, timer, closeLog, page, web, html,
                   list, cache>>

\* Promise.all resolved: lines 182-184 up to the await, or the return of line 189
ReleaseEarly ==
    /\ pc = "awaiting"
    /\ IF conn # "null"
       THEN /\ pc' = "releasing"
            /\ browser' = CloseInvoked
            /\ closeLog' = Append(closeLog, "release")
       ELSE /\ pc' = "done"
            /\ UNCHANGED <<browser, closeLog>>
    /\ UNCHANGED <<config, err, conn, timer, page, web, html, list, items, task,
                   cache, inflight, calls>>

Release ==
    /\ pc = "awaiting"
    /\ \A i \in 1..Len(items) : items[i].st = "resolved"
    /\ IF conn # "null"
       THEN /\ pc' = "releasing"
            /\ browser' = CloseInvoked
            /\ closeLog' = Append(closeLog, "release")
       ELSE /\ pc' = "done"
            /\ UNCHANGED <<browser, closeLog>>
    /\ UNCHANGED <<config, err, conn, timer, page, web, html, list, items, task,
                   cache, inflight, calls>>

\* await conn.browser.close() of line 183 resolves; the handler returns the feed
ReleaseDone ==
    /\ pc = "releasing"
    /\ browser = "closed"
    /\ pc' = "done"
    /\ UNCHANGED <<config, err, conn, browser, timer, closeLog, page, web, html, list,
                   items, task, cache, inflight, calls>>

\* the browser finishes closing
CloseSettle ==
    /\ browser = "closing"
    /\ browser' = "closed"
    /\ UNCHANGED <<config, pc, err, conn, timer, closeLog, page, web, html, list,
                   items, task, cache, inflight, calls>>

\* when the 120 s timer can be due: not inside the run-to-completion segment of
\* lines 105-153, and, page.goto timing out after half the delay, not before the
\* listing navigation has loaded its page unless the handler is over
TimerDue ==
    \/ pc \in {"failed", "done"}
    \/ /\ pc \notin {"extracting", "fanout"}
       /\ GotoTimeout < ExpiryDelay =>
            (task[0].pc \in {"poll", "content", "done"} /\ ~task[0].gotoFailed)

\* the callback of setTimeout(..., 120000), lines 96-100
TimerFireNoClose ==
    /\ timer = "armed"
    /\ TimerDue
    /\ timer' = "fired"
    /\ UNCHANGED <<browser, closeLog>>
    /\ UNCHANGED <<config, pc, err, conn, page, web, html, list, items, task, cache,
                   inflight, calls>>

TimerFire ==
    /\ timer = "armed"
    /\ TimerDue
    /\ timer' = "fired"
    /\ IF conn # "null"
       THEN /\ browser' = CloseInvoked
            /\ closeLog' = Append(closeLog, "timer")
       ELSE UNCHANGED <<browser, closeLog>>
    /\ UNCHANGED <<config, pc, err, conn, page, web, html, list, items, task, cache,
                   inflight, calls>>

Next ==
    \/ Start
    \/ ConnectResolve
    \/ ConnectReject
    \/ \E t \in Tasks : GotoResolve(t)
    \/ \E t \in Tasks : GotoReject(t)
    \/ \E t \in Tasks : Poll(t)
    \/ \E t \in Tasks : ContentResolve(t)
    \/ \E t \in Tasks : ContentReject(t)
    \/ \E t \in Tasks : FetchSettle(t)
    \/ FailClosed
    \/ Extracting
    \/ FanOut
    \/ Release
    \/ ReleaseDone
    \/ CloseSettle
    \/ TimerFire

Spec == Init /\ [][Next]_vars

\* the event loop runs every continuation that is ready, and every awaited
\* operation settles (page.goto and fetch by their 60 s timeouts)
FairSpec == Spec /\ WF_vars(Next)

SpecExtract == InitExtract /\ [][Extracting]_vars

-----------------------------------------------------------------------------
(* The compute callback on one record and one detail markup, lines 154-178 *)

\* records as the listing stage leaves them
MergeItems ==
    [title       : {"t1"},
     link        : {baseUrl \o "/a1"},
     description : {"", "d1"},
     pubDate     : {Undefined, Some(parseDate("2026-01-01"))},
     author      : {Undefined, Some("desk")},
     category    : {Undefined, Some(<<"news">>)}]

\* what getPageWithRealBrowser can return for the detail page
MergeDocs ==
    {EmptyMarkup} \cup
    [kind       : {"detail"},
     url        : {baseUrl \o "/a1"},
     content    : {Undefined, Some(""), Some("<p>body</p>")},
     datetime   : {"", "2026-02-02T08:00", "yesterday"},
     author     : {"", "reporter"},
     categories : {<<>>, <<"defi">>}]

\* detailHtml has just been returned to the callback for item list[1]
InitMerge ==
    /\ config = [puppeteerRealBrowserService |-> "http://svc", chromiumExecutablePath |-> ""]
    /\ pc = "merging"
    /\ web = EmptyMarkup
    /\ html \in MergeDocs
    /\ cache = {}
    /\ err = ""
    /\ conn = "null"
    /\ browser = "none"
    /\ timer = "none"
    /\ closeLog = <<>>
    /\ page = ""
    /\ \E item \in MergeItems : list = <<item>>
    /\ items = <<Pending>>
    /\ task = [t \in 0..MaxListing |-> NoTask]
    /\ inflight = {}
    /\ calls = NoCalls

\* lines 156-178 of ctee/category.ts
Compute ==
    /\ pc = "merging"
    /\ \E parsed \in (IF Falsy(html) THEN {[threw |-> FALSE, val |-> ""]}
                       ELSE ParseDateOutcomes(html.datetime)) :
        items' = <<[st  |-> "resolved",
                    val |-> Some(IF Falsy(html) THEN list[1]
                                 ELSE MergeDetailParsed(list[1], html, parsed))]>>
    /\ pc' = "merged"
    /\ UNCHANGED <<config, err, conn, browser, timer, closeLog, page, web, html,
                   list, task, cache, inflight, calls>>

\* lines 144-181 of blocktempo/year.ts
ComputeYear ==
    /\ pc = "merging"
    /\ items' = <<[st |-> "resolved", val |-> Some(MergeDetailYear(list[1], html))]>>
    /\ pc' = "mergedYear"
    /\ UNCHANGED <<config, err, conn, browser, timer, closeLog, page, web, html,
                   list, task, cache, inflight, calls>>

NextMerge == Compute \/ ComputeYear

SpecMerge == InitMerge /\ [][NextMerge]_vars

-----------------------------------------------------------------------------
(* The selector chain on listings that several chain entries match, lines 116-132 *)

\* what chain entry k matches in a document it matches: one node, or two
ChainMatch(k) ==
    IF k % 2 = 1 THEN <<WellFormedNode(k)>>
    ELSE <<WellFormedNode(k), WellFormedNode(k + ChainLen)>>

\* listing documents by the set of chain entries that match something
ChainMarkups ==
    { [kind |-> "listing",
       sel  |-> [k \in 1..ChainLen |-> IF k \in S THEN ChainMatch(k) ELSE <<>>]] :
      S \in SUBSET (1..ChainLen) }

\* the remote service has just returned the listing markup to the handler
InitChain ==
    /\ config = [puppeteerRealBrowserService |-> "http://svc", chromiumExecutablePath |-> ""]
    /\ pc = "extracting"
    /\ html \in ChainMarkups
    /\ web = html
    /\ cache = {}
    /\ err = ""
    /\ conn = "null"
    /\ browser = "none"
    /\ timer = "none"
    /\ closeLog = <<>>
    /\ page = ""
    /\ list = <<>>
    /\ items = <<>>
    /\ task = [t \in 0..MaxListing |->
                 IF t = 0
                 THEN [NoTask EXCEPT !.pc = "done", !.url = ListingUrl, !.ret = html,
                                     !.resp = Some([threw |-> FALSE, data |-> Some(<<html>>)])]
                 ELSE NoTask]
    /\ inflight = {}
    /\ calls = [NoCalls EXCEPT !.fetch = 1]

\* lines 113-189 in remote mode
NextChain ==
    \/ Extracting
    \/ FanOut
    \/ \E t \in Tasks : FetchSettle(t)
    \/ Release

SpecChain == InitChain /\ [][NextChain]_vars

-----------------------------------------------------------------------------
(* The fan-out on listings around the cap of 20, lines 134-153 *)

\* listings of about ListCap candidates, all well-formed but possibly the
\* second, which repeats the first link or has no title
CapMarkups ==
    { ListingMarkup(ListingNodes(n, p, kp, 0, "notitle"), 1) :
        n \in (MaxNodes - 2)..MaxNodes, p \in {0, 2}, kp \in {"duplicate", "notitle"} }

\* the remote service has just returned such a listing to the handler; of the
\* detail requests the fan-out then makes, those of Tasks are followed further
InitCap ==
    /\ config = [puppeteerRealBrowserService |-> "http://svc", chromiumExecutablePath |-> ""]
    /\ pc = "extracting"
    /\ html \in CapMarkups
    /\ web = html
    /\ cache = {}
    /\ err = ""
    /\ conn = "null"
    /\ browser = "none"
    /\ timer = "none"
    /\ closeLog = <<>>
    /\ page = ""
    /\ list = <<>>
    /\ items = <<>>
    /\ task = [t \in 0..MaxNodes |->
                 IF t = 0
                 THEN [NoTask EXCEPT !.pc = "done", !.url = ListingUrl, !.ret = html,
                                     !.resp = Some([threw |-> FALSE, data |-> Some(<<html>>)])]
                 ELSE NoTask]
    /\ inflight = {}
    /\ calls = [NoCalls EXCEPT !.fetch = 1]

\* the handler on the listings of the pipeline and on those around the cap
SpecRelease == (Init \/ InitCap) /\ [][Next]_vars

-----------------------------------------------------------------------------
(* Successive requests: the cache outlives a run of the handler *)

\* the next request for the same listing arrives after a run that returned its
\* feed and whose browser and timer are gone: the handler starts afresh, the
\* cache holds what the earlier runs stored
Rerun ==
    /\ pc = "done"
    /\ timer # "armed"
    /\ browser \in {"none", "closed"}
    /\ pc' = "idle"
    /\ html' = EmptyMarkup
    /\ err' = ""
    /\ conn' = "null"
    /\ browser' = "none"
    /\ timer' = "none"
    /\ closeLog' = <<>>
    /\ page' = ""
    /\ list' = <<>>
    /\ items' = <<>>
    /\ task' = [t \in 0..MaxListing |-> NoTask]
    /\ inflight' = {}
    /\ calls' = NoCalls
    /\ UNCHANGED <<config, web, cache>>

NextRerun == Next \/ Rerun

SpecRerun == Init /\ [][NextRerun]_vars

-----------------------------------------------------------------------------
(* The poll loop of getPageWithRealBrowser against the clock, lines 30-37.
   Poll above takes a whole turn of the loop in one step and leaves the clock
   out; here task[t].elapsed is Date.now() - startDate in ms, task[t].polls the
   number of page.evaluate calls made, task[t].last the outcome of the latest. *)

\* the state after page.goto of the listing navigation resolved: startDate is
\* taken, the loop condition holds and the first page.evaluate is in flight
InitPoll ==
    /\ config = [puppeteerRealBrowserService |-> "", chromiumExecutablePath |-> "/usr/bin/chromium"]
    /\ pc = "listing"
    /\ err = ""
    /\ conn = "conn"
    /\ browser = "open"
    /\ timer = "armed"
    /\ closeLog = <<>>
    /\ page = ListingUrl
    /\ web = ListingMarkup(ListingNodes(1, 0, "nohref", 0, "notitle"), 1)
    /\ html = EmptyMarkup
    /\ list = <<>>
    /\ items = <<>>
    /\ task = [t \in 0..MaxListing |->
                 IF t = 0 THEN [NoTask EXCEPT !.pc = "evaluate", !.url = ListingUrl]
                 ELSE NoTask]
    /\ cache = {}
    /\ inflight = {}
    /\ calls = [NoCalls EXCEPT !.connect = 1, !.goto = 1]

\* while (!verify && Date.now() - startDate < 60000)
LoopContinuesInclusive(verify, elapsed) == ~verify /\ elapsed <= PollBudget

LoopContinues(verify, elapsed) == ~verify /\ elapsed < PollBudget

EvalOutcomes == {"match", "nomatch", "error"}

\* verify = await page.evaluate(...).catch(() => null), then the sleep is started
EvaluateSettle(t) ==
    /\ task[t].pc = "evaluate"
    /\ \E outcome \in EvalOutcomes, d \in 0..MaxEvalSteps :
        task' = [task EXCEPT ![t].verify = (outcome = "match"),
                             ![t].last = outcome,
                             ![t].polls = @ + 1,
                             ![t].elapsed = @ + d * EvalStep,
                             ![t].pc = "sleep"]
    /\ UNCHANGED <<config, pc, err, conn, browser, timer, closeLog, page, web, html,
                   list, items, cache, inflight, calls>>

\* await new Promise((r) => setTimeout(r, 1000)) resolves, at the delay or a
\* step late, and the loop condition is tested: the next page.evaluate is
\* called or the loop is left for page.content()
SleepSettleTimeoutThrows(t) ==
    /\ task[t].pc = "sleep"
    /\ \E late \in 0..1 :
        LET now == task[t].elapsed + PollInterval + late * EvalStep
        IN  IF task[t].verify \/ LoopContinues(task[t].verify, now)
            THEN /\ task' = [task EXCEPT ![t].elapsed = now,
                                         ![t].pc = IF task[t].verify THEN "content"
                                                   ELSE "evaluate"]
                 /\ UNCHANGED <<config, pc, err, conn, browser, timer, closeLog, page,
                                web, html, list, items, cache, inflight, calls>>
            ELSE /\ Return(t, EmptyMarkup, Undefined)
                 /\ UNCHANGED <<config, conn, timer, page, web, list, calls>>

SleepSettle(t) ==
    /\ task[t].pc = "sleep"
    /\ \E late \in 0..1 :
        LET now == task[t].elapsed + PollInterval + late * EvalStep
        IN  task' = [task EXCEPT ![t].elapsed = now,
                                 ![t].pc = IF LoopContinues(task[t].verify, now)
                                           THEN "evaluate" ELSE "content"]
    /\ UNCHANGED <<config, pc, err, conn, browser, timer, closeLog, page, web, html,
                   list, items, cache, inflight, calls>>

\* the loop, then return await page.content() of line 37 and the handler's
\* test of the listing markup
NextPoll ==
    \/ EvaluateSettle(0)
    \/ SleepSettle(0)
    \/ ContentResolve(0)
    \/ ContentReject(0)

SpecPoll == InitPoll /\ [][NextPoll]_vars

\* page.evaluate settles (a protocol call answers or is timed out) and timers fire
FairSpecPoll == SpecPoll /\ WF_vars(NextPoll)

-----------------------------------------------------------------------------
(* Properties *)

Closed(who) == \E k \in 1..Len(closeLog) : closeLog[k] = who

Navigating(t) == task[t].pc \in {"goto", "poll", "content"}

\* C1: with neither a chromium executable path nor a remote service URL
\* configured, the handler fails with the configuration error and nothing
\* else happens: no session is opened, no navigation, no remote request and
\* no cache access is made.
C1_ConfigErrorBeforeAnyActivity ==
    (config.puppeteerRealBrowserService = "" /\ config.chromiumExecutablePath = "")
        => /\ pc \in {"idle", "failed"}
           /\ pc = "failed" => err = "config"
           /\ calls = NoCalls
           /\ browser = "none" /\ conn = "null" /\ timer = "none"
           /\ \A t \in Tasks : task[t].pc = "unused"

C1_Witness ==
    /\ config.puppeteerRealBrowserService = ""
    /\ config.chromiumExecutablePath = ""
    /\ pc = "failed"
    /\ err = "config"

\* C2: in local-session mode at most one navigation (page.goto until the
\* markup is returned) is in progress on the session's page at any time.
C2_NavigationsSerialized ==
    conn # "null" => Cardinality({t \in Tasks : Navigating(t)}) <= 1

C4_ClosedSessionNeverReturns ==
    \A t \in Tasks : task[t].closedAtCall => task[t].pc # "done"

\* C5: a record whose detail fetch returned empty markup resolves to its
\* listing-derived record unchanged, the handler never fails once the fan-out
\* has begun, and a run in which a detail fetch failed still ends in Done.
C5_FailedDetailKeepsListing ==
    /\ [](\A t \in 1..Len(list) :
            (task[t].pc = "done" /\ Falsy(task[t].ret))
                => items[t] = [st |-> "resolved", val |-> Some(list[t])])
    /\ [](pc = "failed" => \A t \in 1..MaxListing : task[t].pc = "unused")
    /\ ((\E t \in 1..Len(list) : task[t].pc = "done" /\ Falsy(task[t].ret))
            ~> pc = "done")

C5_Witness ==
    /\ pc = "done"
    /\ \E t, u \in 1..Len(list) :
        /\ task[t].pc = "done" /\ Falsy(task[t].ret)
        /\ items[t].val = Some(list[t])
        /\ task[u].pc = "done" /\ ~Falsy(task[u].ret)
        /\ items[u].val # Some(list[u])

\* C6: when the handler fails with the fetch error after a session was
\* opened, conn.browser.close() has been invoked by the failure path and
\* the browser is closed.
C6_FailedClosesSession ==
    (pc = "failed" /\ err = "fetch" /\ calls.connect > 0)
        => browser = "closed" /\ Closed("fail")

C6_Witness ==
    /\ pc = "failed"
    /\ err = "fetch"
    /\ closeLog = <<"fail">>
    /\ browser = "closed"

\* C7: with a remote service URL configured no session is ever opened or
\* closed, and when the service answers the listing request with {data: []}
\* the render yields the empty string and the handler fails with the fetch
\* error.
C7_RemoteEmptyDataFails ==
    config.puppeteerRealBrowserService # "" =>
        /\ browser = "none" /\ conn = "null" /\ timer = "none"
        /\ calls.connect = 0 /\ calls.goto = 0
        /\ closeLog = <<>>
        /\ (task[0].pc = "done" /\ task[0].resp = Some([threw |-> FALSE, data |-> Some(<<>>)]))
              => /\ Falsy(task[0].ret)
                 /\ pc = "failed"
                 /\ err = "fetch"

C7_Witness ==
    /\ config.puppeteerRealBrowserService # ""
    /\ task[0].resp = Some([threw |-> FALSE, data |-> Some(<<>>)])
    /\ pc = "failed"
    /\ err = "fetch"

Titled(node) == node.title # "" \/ node.linkText # ""

WellFormed(node) == Titled(node) /\ node.href # Undefined /\ node.href[1] # ""

TitleOf(node) == IF node.title # "" THEN node.title ELSE node.linkText

FirstCap(nodes) == SubSeq(nodes, 1, IF Len(nodes) < ListCap THEN Len(nodes) ELSE ListCap)

Titles(s) == [i \in 1..Len(s) |-> s[i].title]

NodeTitles(s) == [i \in 1..Len(s) |-> TitleOf(s[i])]

C9_LinklessExcluded ==
    pc = "fanout" =>
        Titles(list) = NodeTitles(SelectSeq(FirstCap(Articles(html)), WellFormed))

\* C10: once conn.browser.close() has been invoked by the handler (failure
\* path or release), the expiry timer does not invoke it again.
C10_TimerNoOpAfterClose ==
    \A j, k \in 1..Len(closeLog) :
        (j < k /\ closeLog[j] \in {"fail", "release"}) => closeLog[k] # "timer"

\* C11: a session that was opened is eventually closed whatever the handler
\* does afterwards, and it is never still open once the 120 s expiry timer has
\* run: while the browser is open the timer armed at open is still pending.
C11_SessionEventuallyClosed ==
    /\ [](browser = "open" => timer = "armed")
    /\ [](timer = "fired" => browser \in {"closing", "closed"})
    /\ (browser = "open" ~> browser = "closed")

C11_Witness ==
    /\ pc = "awaiting"
    /\ timer = "fired"
    /\ closeLog = <<"timer">>
    /\ browser = "closed"

C13_PollLoopBounded ==
    /\ [](task[0].polls <= PollBudget \div PollInterval)
    /\ [](task[0].pc = "evaluate" =>
            /\ ~task[0].verify
            /\ task[0].elapsed < PollBudget
            /\ task[0].elapsed >= task[0].polls * PollInterval)
    /\ [](task[0].last = "error" => ~task[0].verify)
    /\ [](task[0].pc = "content" =>
            (task[0].last = "match" \/ task[0].elapsed >= PollBudget))
    /\ [][task[0].verify => task'[0].polls <= task[0].polls]_vars
    /\ <>(task[0].pc = "content")

\* the budget ran out after 60 evaluations, the last of which rejected
C13_Witness ==
    /\ task[0].pc = "content"
    /\ task[0].polls = PollBudget \div PollInterval
    /\ task[0].last = "error"
    /\ task[0].elapsed = PollBudget

C15_ChallengeTimeoutProceeds ==
    /\ [][task[0].pc \in {"evaluate", "sleep"}
            => task'[0].pc \in {"evaluate", "sleep", "content"}]_vars
    /\ [][(task[0].pc = "content" /\ task'[0].pc = "done" /\ task'[0].ret # EmptyMarkup)
            => (task'[0].ret = web /\ pc' = "extracting")]_vars
    /\ []((task[0].pc = "done" /\ task[0].last # "match" /\ task[0].ret # EmptyMarkup)
            => (task[0].elapsed >= PollBudget /\ pc = "extracting" /\ err = ""))

C15_Witness ==
    /\ pc = "extracting"
    /\ task[0].pc = "done"
    /\ task[0].last = "nomatch"
    /\ task[0].elapsed >= PollBudget
    /\ task[0].ret = web
    /\ html = web

\* C16: a detail fetch that returned '' still stores the record under its
\* link, as extracted from the listing; a record whose link the cache holds
\* when the fan-out is made gets no detail fetch and resolves to the stored
\* record, so a later run returns the degraded record without fetching.
C16_DegradedRecordCached ==
    /\ [](\A t \in 1..Len(list) :
            (task[t].pc = "done" /\ task[t].ret = EmptyMarkup)
                => <<list[t].link, list[t]>> \in cache)
    /\ [][(pc = "fanout" /\ pc' = "awaiting") =>
            \A i \in 1..Len(list) :
                (\E e \in cache : e[1] = list[i].link) =>
                    /\ task'[i].pc = "unused"
                    /\ items'[i].st = "resolved"
                    /\ <<list[i].link, items'[i].val[1]>> \in cache]_vars
    /\ [][\A e \in cache : e \in cache']_vars

\* a later run: no detail fetch was made and the record returned is the
\* listing-derived one the earlier run stored
C16_Witness ==
    /\ pc = "done"
    /\ Len(list) = MaxListing
    /\ \A i \in 1..Len(list) :
        /\ task[i].pc = "unused"
        /\ items[i].val = Some(list[i])
        /\ <<list[i].link, list[i]>> \in cache
    /\ calls.goto + calls.fetch = 1

\* C17: when the detail page carries a date text that parseDate cannot
\* parse, the merged record keeps the pubDate it had (the listing's, or none),
\* whichever way parseDate fails.
C17_UnparseableDateKeepsPrior ==
    (pc = "merged" /\ html # EmptyMarkup /\ html.datetime # "" /\ ~Parseable(html.datetime))
        => items[1].val[1].pubDate = list[1].pubDate

\* C18: the merge leaves title and link alone and changes a field only when
\* the detail page yields a value for it: without content the description,
\* without a date text the pubDate, without an author text the author and
\* without category links the category are those of the listing record; an
\* empty detail markup changes nothing.
C18_MergeChangesOnlyPresentFields ==
    pc \in {"merged", "mergedYear"} =>
        LET r == items[1].val[1]
            i == list[1]
        IN  /\ r.title = i.title
            /\ r.link = i.link
            /\ html = EmptyMarkup => r = i
            /\ html # EmptyMarkup =>
                  /\ (html.content = Undefined \/ html.content = Some(""))
                        => r.description = i.description
                  /\ pc = "merged" =>
                        /\ html.datetime = "" => r.pubDate = i.pubDate
                        /\ html.author = "" => r.author = i.author
                        /\ r.category = i.category
                  /\ pc = "mergedYear" =>
                        /\ html.categories = <<>> => r.category = i.category
                        /\ r.pubDate = i.pubDate
                        /\ r.author = i.author

\* a detail page with an author and nothing else: only the author changed
C18_Witness ==
    /\ pc = "merged"
    /\ html # EmptyMarkup
    /\ html.content = Undefined
    /\ html.datetime = ""
    /\ html.author = "reporter"
    /\ list[1].description = "d1"
    /\ list[1].pubDate # Undefined
    /\ list[1].author = Some("desk")
    /\ items[1].val[1] = [list[1] EXCEPT !.author = Some("reporter")]

\* C19: the records of the feed stand in listing order, and in a run that
\* served no record from an earlier cache entry every listing record, also
\* one that shares its link with another, had a detail fetch of its own and
\* is its listing record merged once with the detail page of its own link
\* (or left as it is when that fetch failed).
C19_OwnEnrichmentOncePerRecord ==
    pc = "done" =>
        /\ Len(items) = Len(list)
        /\ \A i \in 1..Len(list) : items[i].val[1].link = list[i].link
        /\ (\A i \in 1..Len(list) :
                \E j \in 1..Len(list) : list[j].link = list[i].link /\ task[j].pc = "done")
              => \A i \in 1..Len(list) :
                    /\ task[i].pc = "done"
                    /\ items[i].val[1] \in
                          {MergeDetail(list[i], m) :
                              m \in {EmptyMarkup} \cup
                                    {DetailDoc(list[i].link, shape) : shape \in DetailShapes}}

\* C20: every run of the handler ends: it reaches Done or Failed and stays
\* there, with no listing or detail fetch still pending, also in the runs in
\* which the expiry timer closes the browser while navigations are in flight.
C20_HandlerTerminates ==
    <>[](/\ pc \in {"done", "failed"}
         /\ \A t \in Tasks : task[t].pc \in {"unused", "done"}
         /\ inflight = {})

\* the timer has closed the browser under a detail navigation in flight
C20_Witness ==
    /\ pc = "awaiting"
    /\ closeLog = <<"timer">>
    /\ browser = "closed"
    /\ \E t \in 1..Len(list) : Navigating(t) /\ ~task[t].closedAtCall

\* C21: the candidate nodes are those matched by the first entry of the
\* selector chain that matches anything, whatever later entries match; when
\* no entry matches there are no candidates, no record and no detail fetch,
\* and the handler returns an empty feed instead of failing.
C21_FirstMatchingSelectorUsed ==
    LET matching == {k \in 1..ChainLen : html.sel[k] # <<>>}
    IN  /\ pc # "failed"
        /\ err = ""
        /\ pc # "extracting" =>
              IF matching = {}
              THEN /\ list = <<>>
                   /\ items = <<>>
                   /\ \A t \in 1..MaxListing : task[t].pc = "unused"
              ELSE LET first == CHOOSE k \in matching : \A j \in matching : k <= j
                   IN  /\ Articles(html) = html.sel[first]
                       /\ Titles(list) = NodeTitles(html.sel[first])
                       /\ \A i \in 1..Len(list) :
                             list[i].link = baseUrl \o html.sel[first][i].href[1]

\* the second chain entry supplied the candidates although later ones match too
C21_Witness ==
    /\ pc = "done"
    /\ html.sel[1] = <<>>
    /\ html.sel[2] # <<>>
    /\ html.sel[3] # <<>>
    /\ html.sel[ChainLen] # <<>>
    /\ Titles(list) = NodeTitles(html.sel[2])
    /\ Len(items) = Len(html.sel[2])

DetailTasks == {t \in DOMAIN task \ {0} : task[t].pc # "unused"}

\* C22: conn.browser.close() of the release, and the return of the feed, come
\* only when every detail fetch of the fan-out has returned; a detail fetch is
\* started only after the listing fetch returned markup; and a run starts at
\* most 20 detail fetches.
C22_ReleaseAfterFanOut ==
    /\ (Closed("release") \/ pc \in {"releasing", "done"}) =>
          /\ \A t \in DetailTasks : task[t].pc = "done"
          /\ \A i \in 1..Len(items) : items[i].st = "resolved"
          /\ inflight = {}
    /\ DetailTasks # {} =>
          /\ task[0].pc = "done"
          /\ task[0].ret # EmptyMarkup
          /\ pc \in {"awaiting", "releasing", "done"}
    /\ (Closed("fail") \/ pc \in {"failclosing", "failed"}) => DetailTasks = {}
    /\ Cardinality(DetailTasks) <= ListCap
    /\ calls.goto + calls.fetch <= ListCap + 1
    /\ calls.cache <= ListCap

\* a listing of more than 20 candidates: 20 detail fetches are in flight
C22_Witness ==
    /\ pc = "awaiting"
    /\ Len(Articles(html)) > ListCap
    /\ Cardinality(DetailTasks) = ListCap
    /\ calls.fetch = ListCap + 1
    /\ \A t \in DetailTasks : task[t].pc = "fetch"

=============================================================================
